---- MODULE Spec2Model ----
(***************************************************************************)
(* Model of leogpt.py: a Discord bot that relays mentions to an OpenAI     *)
(* assistant thread per channel.  One task runs per inbound message; the   *)
(* tasks interleave at every await of an external call.  Each action below *)
(* is the code that runs between two such awaits.                          *)
(*                                                                         *)
(* Texts are sequences of one-character strings.  Time is counted in whole *)
(* hours.  chunk_size and the texts are scaled down from the program's     *)
(* 2000 characters so that a reply still needs more than one chunk.        *)
(***************************************************************************)
EXTENDS Integers, Sequences, FiniteSets, TLC

\* ---------------------------------------------------------------- bounds
NumEvents == 2
NumChannels == 2
MaxTime == 2

\* texts given to the chunker: every text of at most MaxLen characters
MaxLen == 7
\* sends after which the chunker's loop is no longer followed
MaxSends == 4

\* message lists given to the selector: at most MaxMsgs messages with creation
\* timestamps 1..MaxStamp
MaxMsgs == 3
MaxStamp == 2

\* runs.retrieve calls of one event after which its poll loop is no longer followed
MaxPolls == 3

Events == 1..NumEvents
Channels == 1..NumChannels
Handles == 1..NumEvents

\* ------------------------------------------------------ program constants
None == 0
IdleThreshold == 1
chunk_size == 5

Fallback == <<"F">>
NoResponse == <<"N">>
Whitespace == {" ", "\n"}

\* ------------------------------------------------------------ pure helpers
SetMax(S) == CHOOSE x \in S : \A y \in S : y <= x

\* str.rfind(c, start, end): highest 0-based index in [start, end) or -1
rfind(s, c, start, end) ==
    LET hi == IF end < Len(s) THEN end ELSE Len(s)
        I  == {i \in start..(hi - 1) : s[i + 1] = c}
    IN  IF I = {} THEN -1 ELSE SetMax(I)

\* str.strip(): drop leading and trailing whitespace
strip(s) ==
    LET I == {i \in 1..Len(s) : s[i] \notin Whitespace}
    IN  IF I = {} THEN <<>>
        ELSE SubSeq(s, CHOOSE i \in I : \A j \in I : i <= j, SetMax(I))

\* line 47
split_index(message, limit) ==
    IF Len(message) > limit THEN rfind(message, " ", 0, limit) + 1
    ELSE Len(message)

\* line 48
chunk(message, limit) == strip(SubSeq(message, 1, split_index(message, limit)))

\* line 50
rest(message, limit) ==
    SubSeq(message, split_index(message, limit) + 1, Len(message))

\* a selector that takes the oldest assistant message
retrieve_oldest_response(data) ==
    LET A == {i \in 1..Len(data) : data[i].role = "assistant"}
    IN  IF A # {}
        THEN LET i == CHOOSE i \in A :
                          /\ \A j \in A : data[j].created_at >= data[i].created_at
                          /\ \A j \in A : j < i => data[j].created_at > data[i].created_at
             IN  data[i].content
        ELSE NoResponse

\* lines 95-100: max() keeps the first maximal element it meets
retrieve_latest_response(data) ==
    LET A == {i \in 1..Len(data) : data[i].role = "assistant"}
    IN  IF A # {}
        THEN LET i == CHOOSE i \in A :
                          /\ \A j \in A : data[j].created_at <= data[i].created_at
                          /\ \A j \in A : j < i => data[j].created_at < data[i].created_at
             IN  data[i].content
        ELSE NoResponse

\* lines 46-50: the chunks send_in_chunks hands to channel.send, in order, when
\* every send succeeds (a text whose split_index is 0 never shrinks: cut off
\* after Len + 1 rounds)
RECURSIVE chunks_from(_, _, _)
chunks_from(message, limit, fuel) ==
    IF message = <<>> \/ fuel = 0 THEN <<>>
    ELSE <<chunk(message, limit)>> \o chunks_from(rest(message, limit), limit, fuel - 1)

chunks(message, limit) == chunks_from(message, limit, Len(message) + 1)

\* a sweep that also drops a session idle for exactly the threshold
ExpiredAtThreshold(value, t) == t - value.last_used >= IdleThreshold

\* lines 131-134
Expired(value, t) == t - value.last_used > IdleThreshold

cleanup_old_threads(store, t) ==
    [k \in {k \in DOMAIN store : ~Expired(store[k], t)} |-> store[k]]

\* line 28: the defaultdict's factory
ColdSession(t) == [thread_id |-> None, last_used |-> t]

\* defaultdict.__getitem__: insert the default when the key is missing
Lookup(store, k, t) ==
    IF k \in DOMAIN store THEN store
    ELSE [x \in DOMAIN store \cup {k} |-> IF x = k THEN ColdSession(t) ELSE store[x]]

\* an on_message that resolves the session without updating last_used
touch_skipped(store, k, t) == Lookup(store, k, t)

\* line 156: thread_ids[identifier]["last_used"] = datetime.now()
touch(store, k, t) == [Lookup(store, k, t) EXCEPT ![k].last_used = t]

\* an ensureThread that never creates a thread
NeverCold(tid) == FALSE

\* an ensureThread that creates a thread whatever the session holds
AlwaysCold(tid) == TRUE

\* line 110
IsCold(tid) == tid = None

\* the assistant's answer to the run started by event e
Letter(e) == <<"a", "b", "c", "d">>[e]
Reply(e) == <<Letter(e), Letter(e), Letter(e), " ", Letter(e), Letter(e), Letter(e)>>

\* ------------------------------------------------------------------ state
VARIABLES
    thread_ids,   \* the session map: channel -> [thread_id, last_used]
    now,          \* datetime.now(), in hours
    pc,           \* where each event's task is suspended
    msg,          \* the inbound message of each event
    thread_id,    \* interact_with_openai's local thread_id
    updated_run,  \* status last seen by check_openai_response
    polled,       \* statuses runs.retrieve has returned to the event, in order
    response,     \* on_message's response
    message,      \* send_in_chunks' remaining text
    sent,         \* chunks the channel accepted for the event, in order
    calls,        \* backend operations the event has called
    threads,      \* backend: handle -> messages of the thread
    next_thread,  \* backend: handles handed out so far
    runs          \* backend: status of the run created by each event

vars == <<thread_ids, now, pc, msg, thread_id, updated_run, polled, response, message,
          sent, calls, threads, next_thread, runs>>

NoMsg == [author_is_bot |-> FALSE, broadcast |-> FALSE, mentioned |-> FALSE, channel |-> 1]

Init ==
    /\ thread_ids = <<>>
    /\ now = 0
    /\ pc = [e \in Events |-> "idle"]
    /\ msg = [e \in Events |-> NoMsg]
    /\ thread_id = [e \in Events |-> None]
    /\ updated_run = [e \in Events |-> "none"]
    /\ polled = [e \in Events |-> <<>>]
    /\ response = [e \in Events |-> <<>>]
    /\ message = [e \in Events |-> <<>>]
    /\ sent = [e \in Events |-> <<>>]
    /\ calls = [e \in Events |-> {}]
    /\ threads = [h \in Handles |-> <<>>]
    /\ next_thread = 0
    /\ runs = [e \in Events |-> "none"]

\* a filter that lets broadcast mentions through
FilteredSelfOnly(m) == m.author_is_bot

\* lines 148-153
Filtered(m) == m.author_is_bot \/ m.broadcast

\* the wall clock advances
Tick ==
    /\ now < MaxTime
    /\ now' = now + 1
    /\ UNCHANGED <<thread_ids, pc, msg, thread_id, updated_run, polled, response, message,
                   sent, calls, threads, next_thread, runs>>

\* lines 146-164: an event arrives; filter, touch, sweep, then enter typing()
on_message(e) ==
    /\ pc[e] = "idle"
    /\ IF e = 1 THEN TRUE ELSE pc[e - 1] # "idle"
    /\ \E m \in [author_is_bot : BOOLEAN, broadcast : BOOLEAN,
                 mentioned : BOOLEAN, channel : Channels] :
        /\ msg' = [msg EXCEPT ![e] = m]
        /\ IF Filtered(m)
           THEN /\ pc' = [pc EXCEPT ![e] = "done"]
                /\ UNCHANGED thread_ids
           ELSE /\ thread_ids' = cleanup_old_threads(touch(thread_ids, m.channel, now), now)
                /\ pc' = [pc EXCEPT ![e] = IF m.mentioned THEN "typing" ELSE "done"]
    /\ UNCHANGED <<now, thread_id, updated_run, polled, response, message, sent, calls,
                   threads, next_thread, runs>>

\* lines 164-170 and 42-49: start send_in_chunks on the text; suspend at the first send
StartSend(e, text) ==
    /\ response' = [response EXCEPT ![e] = text]
    /\ message' = [message EXCEPT ![e] = text]
    /\ pc' = [pc EXCEPT ![e] = IF text = <<>> THEN "done" ELSE "send"]

\* lines 164, 106-111: typing() returns; read the session; create a thread if cold
typing(e) ==
    /\ pc[e] = "typing"
    /\ \/ /\ LET store == Lookup(thread_ids, msg[e].channel, now)
                 tid   == store[msg[e].channel].thread_id
             IN  /\ thread_ids' = store
                 /\ thread_id' = [thread_id EXCEPT ![e] = tid]
                 /\ pc' = [pc EXCEPT ![e] = IF IsCold(tid) THEN "create" ELSE "submit"]
       \/ /\ pc' = [pc EXCEPT ![e] = "done"]
          /\ UNCHANGED <<thread_ids, thread_id>>
    /\ UNCHANGED <<now, msg, updated_run, polled, response, message, sent, calls,
                   threads, next_thread, runs>>

\* lines 31-39, 112: threads.create() returns or raises (not caught by interact_with_openai)
create_new_thread(e) ==
    /\ pc[e] = "create"
    /\ calls' = [calls EXCEPT ![e] = @ \cup {"createThread"}]
    /\ \/ /\ next_thread < NumEvents
          /\ next_thread' = next_thread + 1
          /\ thread_ids' = [x \in DOMAIN thread_ids \cup {msg[e].channel} |->
                               IF x = msg[e].channel
                               THEN [thread_id |-> next_thread + 1, last_used |-> now]
                               ELSE thread_ids[x]]
          /\ thread_id' = [thread_id EXCEPT ![e] = next_thread + 1]
          /\ pc' = [pc EXCEPT ![e] = "submit"]
       \/ /\ pc' = [pc EXCEPT ![e] = "done"]
          /\ UNCHANGED <<thread_ids, thread_id, next_thread>>
    /\ UNCHANGED <<now, msg, updated_run, polled, response, message, sent, threads, runs>>

\* lines 61-70, 115: messages.create() returns or raises
send_message_to_openai(e) ==
    /\ pc[e] = "submit"
    /\ calls' = [calls EXCEPT ![e] = @ \cup {"createMessage"}]
    /\ \/ /\ threads' = [threads EXCEPT ![thread_id[e]] =
                            Append(@, [role |-> "user", created_at |-> Len(@) + 1,
                                       content |-> <<>>])]
          /\ pc' = [pc EXCEPT ![e] = "run"]
          /\ UNCHANGED <<response, message>>
       \/ /\ StartSend(e, Fallback)
          /\ UNCHANGED threads
    /\ UNCHANGED <<thread_ids, now, msg, thread_id, updated_run, polled, sent, next_thread, runs>>

\* lines 117-120: runs.create() returns or raises
runs_create(e) ==
    /\ pc[e] = "run"
    /\ calls' = [calls EXCEPT ![e] = @ \cup {"createRun"}]
    /\ \/ /\ runs' = [runs EXCEPT ![e] = "in_progress"]
          /\ pc' = [pc EXCEPT ![e] = "poll"]
          /\ UNCHANGED <<response, message>>
       \/ /\ StartSend(e, Fallback)
          /\ UNCHANGED runs
    /\ UNCHANGED <<thread_ids, now, msg, thread_id, updated_run, polled, sent, threads, next_thread>>

\* a poller that stops on any status other than in_progress
RunEnded(status) == status # "in_progress"

\* line 81
RunDone(status) == status = "completed"

\* lines 73-89: runs.retrieve() returns a status or raises
check_openai_response(e) ==
    /\ pc[e] = "poll"
    /\ Len(polled[e]) < MaxPolls
    /\ calls' = [calls EXCEPT ![e] = @ \cup {"retrieveRun"}]
    /\ \/ /\ updated_run' = [updated_run EXCEPT ![e] = runs[e]]
          /\ polled' = [polled EXCEPT ![e] = Append(@, runs[e])]
          /\ pc' = [pc EXCEPT ![e] = IF RunDone(runs[e]) THEN "list" ELSE "sleep"]
          /\ UNCHANGED <<response, message>>
       \/ /\ StartSend(e, Fallback)
          /\ UNCHANGED <<updated_run, polled>>
    /\ UNCHANGED <<thread_ids, now, msg, thread_id, sent, threads, next_thread, runs>>

\* line 86: asyncio.sleep() returns; loop back to retrieve
sleep(e) ==
    /\ pc[e] = "sleep"
    /\ pc' = [pc EXCEPT ![e] = "poll"]
    /\ UNCHANGED <<thread_ids, now, msg, thread_id, updated_run, polled, response, message,
                   sent, calls, threads, next_thread, runs>>

\* lines 92-103, 123: messages.list() returns or raises
list_messages(e) ==
    /\ pc[e] = "list"
    /\ calls' = [calls EXCEPT ![e] = @ \cup {"listMessages"}]
    /\ \/ StartSend(e, retrieve_latest_response(threads[thread_id[e]]))
       \/ StartSend(e, Fallback)
    /\ UNCHANGED <<thread_ids, now, msg, thread_id, updated_run, polled, sent, threads,
                   next_thread, runs>>

\* lines 46-54: channel.send(chunk) returns or raises
send_in_chunks(e) ==
    /\ pc[e] = "send"
    /\ \/ /\ sent' = [sent EXCEPT ![e] = Append(@, chunk(message[e], chunk_size))]
          /\ message' = [message EXCEPT ![e] = rest(@, chunk_size)]
          /\ pc' = [pc EXCEPT ![e] = IF rest(message[e], chunk_size) = <<>>
                                     THEN "done" ELSE "send"]
       \/ /\ pc' = [pc EXCEPT ![e] = "done"]
          /\ UNCHANGED <<sent, message>>
    /\ UNCHANGED <<thread_ids, now, msg, thread_id, updated_run, polled, response, calls,
                   threads, next_thread, runs>>

\* backend: the run of event e completes and its answer is stored in the thread
RunCompletes(e) ==
    /\ runs[e] = "in_progress"
    /\ runs' = [runs EXCEPT ![e] = "completed"]
    /\ threads' = [threads EXCEPT ![thread_id[e]] =
                      Append(@, [role |-> "assistant", created_at |-> Len(@) + 1,
                                 content |-> Reply(e)])]
    /\ UNCHANGED <<thread_ids, now, pc, msg, thread_id, updated_run, polled, response, message,
                   sent, calls, next_thread>>

\* backend: the run of event e ends in the terminal status failed
RunFails(e) ==
    /\ runs[e] = "in_progress"
    /\ runs' = [runs EXCEPT ![e] = "failed"]
    /\ UNCHANGED <<thread_ids, now, pc, msg, thread_id, updated_run, polled, response, message,
                   sent, calls, threads, next_thread>>

Next ==
    \/ Tick
    \/ \E e \in Events : on_message(e)
    \/ \E e \in Events : typing(e)
    \/ \E e \in Events : create_new_thread(e)
    \/ \E e \in Events : send_message_to_openai(e)
    \/ \E e \in Events : runs_create(e)
    \/ \E e \in Events : check_openai_response(e)
    \/ \E e \in Events : sleep(e)
    \/ \E e \in Events : list_messages(e)
    \/ \E e \in Events : send_in_chunks(e)
    \/ \E e \in Events : RunCompletes(e)
    \/ \E e \in Events : RunFails(e)

Spec == Init /\ [][Next]_vars

\* ------------------------------------------------- the chunker on its own
Chars == {"a", "b", " ", "\n"}
ExampleText == <<"a", " ", "b", "b", " ", "c", "c", "c", " ", "d", "d", "d", "d">>
ChunkTexts == (UNION {[1..n -> Chars] : n \in 1..MaxLen}) \cup {ExampleText}

\* line 168: the first event has got the text as its response (the thread's only
\* assistant message) and enters send_in_chunks
ChunkInit ==
    \E text \in ChunkTexts :
        /\ thread_ids = [k \in {1} |-> [thread_id |-> 1, last_used |-> 0]]
        /\ now = 0
        /\ pc = [e \in Events |-> IF e = 1 THEN "send" ELSE "idle"]
        /\ msg = [e \in Events |-> IF e = 1 THEN [NoMsg EXCEPT !.mentioned = TRUE] ELSE NoMsg]
        /\ thread_id = [e \in Events |-> IF e = 1 THEN 1 ELSE None]
        /\ updated_run = [e \in Events |-> IF e = 1 THEN "completed" ELSE "none"]
        /\ polled = [e \in Events |-> IF e = 1 THEN <<"completed">> ELSE <<>>]
        /\ response = [e \in Events |-> IF e = 1 THEN text ELSE <<>>]
        /\ message = [e \in Events |-> IF e = 1 THEN text ELSE <<>>]
        /\ sent = [e \in Events |-> <<>>]
        /\ calls = [e \in Events |-> IF e = 1
                        THEN {"createThread", "createMessage", "createRun",
                              "retrieveRun", "listMessages"}
                        ELSE {}]
        /\ threads = [h \in Handles |-> IF h = 1
                          THEN <<[role |-> "user", created_at |-> 1, content |-> <<>>],
                                 [role |-> "assistant", created_at |-> 2, content |-> text]>>
                          ELSE <<>>]
        /\ next_thread = 1
        /\ runs = [e \in Events |-> IF e = 1 THEN "completed" ELSE "none"]

\* lines 46-50: one round of the loop
ChunkNext == Len(sent[1]) < MaxSends /\ send_in_chunks(1)

SpecChunk == ChunkInit /\ [][ChunkNext]_vars

\* ------------------------------------------------ the selector on its own
Messages == [role : {"user", "assistant"}, created_at : 1..MaxStamp,
             content : {<<"A">>, <<"B">>}]
MessageLists == UNION {[1..n -> Messages] : n \in 0..MaxMsgs}

\* line 123: the first event's run has completed and it is about to list the
\* messages of its thread, which holds any list the backend may return
SelectInit ==
    \E data \in MessageLists :
        /\ thread_ids = [k \in {1} |-> [thread_id |-> 1, last_used |-> 0]]
        /\ now = 0
        /\ pc = [e \in Events |-> IF e = 1 THEN "list" ELSE "idle"]
        /\ msg = [e \in Events |-> IF e = 1 THEN [NoMsg EXCEPT !.mentioned = TRUE] ELSE NoMsg]
        /\ thread_id = [e \in Events |-> IF e = 1 THEN 1 ELSE None]
        /\ updated_run = [e \in Events |-> IF e = 1 THEN "completed" ELSE "none"]
        /\ polled = [e \in Events |-> IF e = 1 THEN <<"completed">> ELSE <<>>]
        /\ response = [e \in Events |-> <<>>]
        /\ message = [e \in Events |-> <<>>]
        /\ sent = [e \in Events |-> <<>>]
        /\ calls = [e \in Events |-> IF e = 1
                        THEN {"createThread", "createMessage", "createRun", "retrieveRun"}
                        ELSE {}]
        /\ threads = [h \in Handles |-> IF h = 1 THEN data ELSE <<>>]
        /\ next_thread = 1
        /\ runs = [e \in Events |-> IF e = 1 THEN "completed" ELSE "none"]

\* lines 92-103
SelectNext == list_messages(1)

SpecSelect == SelectInit /\ [][SelectNext]_vars

\* ------------------------------------------------------------------ claims
InFlight == {"create", "submit", "run", "poll", "sleep", "list", "send"}

Mention(e) == pc[e] # "idle" /\ ~Filtered(msg[e]) /\ msg[e].mentioned

\* a backend step of event e failed: thread creation, or a step whose failure
\* interact_with_openai turns into the fallback text
BackendFailed(e) ==
    \/ "createThread" \in calls[e] /\ thread_id[e] = None
    \/ response[e] = Fallback

IsPrefix(s, t) == Len(s) <= Len(t) /\ s = SubSeq(t, 1, Len(s))

\* C1: once a session holds a thread handle, no step replaces it with a
\* different handle while the session stays in the store.
C1_HandleNeverReplaced ==
    [][\A k \in DOMAIN thread_ids :
          (thread_ids[k].thread_id # None /\ k \in DOMAIN thread_ids')
              => thread_ids'[k].thread_id = thread_ids[k].thread_id]_vars

\* C2: per identifier, at most one mention event is between reading the
\* session's thread handle and finishing its outbound sends.
C2_OneInFlightPerIdentifier ==
    \A e1, e2 \in Events :
        (e1 # e2 /\ pc[e1] \in InFlight /\ pc[e2] \in InFlight)
            => msg[e1].channel # msg[e2].channel

\* C3: a session whose identifier has an interaction in flight is never
\* removed from the store.
C3_InFlightNeverEvicted ==
    \A e \in Events : pc[e] \in InFlight => msg[e].channel \in DOMAIN thread_ids

\* C4: an interaction in which a backend step failed ends with exactly one
\* outbound send, the fallback message.
C4_FailureGivesOneFallback ==
    \A e \in Events :
        (pc[e] = "done" /\ Mention(e) /\ BackendFailed(e)) => sent[e] = <<Fallback>>

\* C5: once the poller has seen the terminal status failed it stops polling:
\* it neither sleeps nor retrieves the run again.
C5_FailedRunStopsPolling ==
    \A e \in Events : updated_run[e] = "failed" => pc[e] \notin {"sleep", "poll"}

\* C6: a mention that passed the filters does not end without at least one
\* outbound send.
C6_MentionGetsSend ==
    \A e \in Events : (pc[e] = "done" /\ Mention(e)) => Len(sent[e]) >= 1

\* C7: the reply selected for an event is the one generated by the run that
\* this event started.
C7_ReplyIsOwnRun ==
    \A e \in Events :
        ("listMessages" \in calls[e] /\ pc[e] \in {"send", "done"}
            /\ response[e] # Fallback) => response[e] = Reply(e)

\* C8: no interaction ends after sending a non-empty proper prefix of the
\* chunks of its response.
C8_NoPartialReply ==
    \A e \in Events :
        pc[e] = "done" =>
            ~(/\ sent[e] # <<>>
              /\ sent[e] # chunks(response[e], chunk_size)
              /\ IsPrefix(sent[e], chunks(response[e], chunk_size)))

\* C9: the sweep run by an unfiltered event removes exactly the sessions whose
\* last_used is more than IdleThreshold before now, cold or activated, and
\* leaves every other session as it was.
C9_SweepRemovesExactlyIdle ==
    [][\A e \in Events :
          (pc[e] = "idle" /\ pc'[e] # "idle" /\ ~Filtered(msg'[e])) =>
              LET c == msg'[e].channel IN
              /\ DOMAIN thread_ids' \subseteq DOMAIN thread_ids \cup {c}
              /\ c \in DOMAIN thread_ids'
              /\ \A k \in DOMAIN thread_ids \ {c} :
                    IF now - thread_ids[k].last_used <= IdleThreshold
                    THEN k \in DOMAIN thread_ids' /\ thread_ids'[k] = thread_ids[k]
                    ELSE k \notin DOMAIN thread_ids']_vars

\* an activated session was swept while the sweeping event's session was kept
C9_Witness ==
    \E e1, e2 \in Events :
        /\ thread_id[e1] # None
        /\ msg[e1].channel \notin DOMAIN thread_ids
        /\ Mention(e2) \/ (pc[e2] = "done" /\ ~Filtered(msg[e2]))
        /\ msg[e2].channel \in DOMAIN thread_ids

\* C10: when the session already holds a handle as ensureThread reads it, the
\* event goes on to submit with that handle, the store and the backend's
\* threads are untouched, and only an event that read a cold session ever
\* calls createThread.
C10_EnsureThreadIdempotent ==
    [][\A e \in Events :
          /\ (/\ pc[e] = "typing" /\ pc'[e] \notin {"typing", "done"}
              /\ msg[e].channel \in DOMAIN thread_ids
              /\ thread_ids[msg[e].channel].thread_id # None)
                => /\ pc'[e] = "submit"
                   /\ thread_id'[e] = thread_ids[msg[e].channel].thread_id
                   /\ thread_ids' = thread_ids
                   /\ next_thread' = next_thread
                   /\ calls'[e] = calls[e]
          /\ ("createThread" \in calls'[e] /\ "createThread" \notin calls[e])
                => thread_id[e] = None]_vars

\* the first mention created the thread and is finished; the second one on the
\* same identifier is submitting with the stored handle and made no creation call
C10_Witness ==
    \E e1, e2 \in Events :
        /\ e1 # e2 /\ msg[e1].channel = msg[e2].channel
        /\ pc[e1] = "done" /\ "createThread" \in calls[e1] /\ thread_id[e1] # None
        /\ pc[e2] = "submit" /\ "createThread" \notin calls[e2]
        /\ thread_id[e2] = thread_id[e1]
        /\ next_thread = 1

\* C11: a failed thread creation changes nothing in the store (the session is
\* not partially created) and hands out no handle, and an event that reads a
\* cold or missing session goes on to call createThread.
C11_FailedCreationLeavesCold ==
    [][\A e \in Events :
          /\ (pc[e] = "create" /\ pc'[e] = "done")
                => /\ thread_ids' = thread_ids
                   /\ thread_id'[e] = None
                   /\ next_thread' = next_thread
                   /\ "createThread" \in calls'[e]
          /\ (/\ pc[e] = "typing" /\ pc'[e] \notin {"typing", "done"}
              /\ \/ msg[e].channel \notin DOMAIN thread_ids
                 \/ thread_ids[msg[e].channel].thread_id = None)
                => pc'[e] = "create"]_vars

\* the first mention's creation failed and stored nothing; the next mention of
\* the identifier has called createThread again and got the only handle
C11_Witness ==
    \E e1, e2 \in Events :
        /\ e1 # e2 /\ msg[e1].channel = msg[e2].channel
        /\ pc[e1] = "done" /\ "createThread" \in calls[e1] /\ thread_id[e1] = None
        /\ "createThread" \in calls[e2] /\ thread_id[e2] # None
        /\ next_thread = 1

\* C12: an unfiltered event without a mention ends at once with no outbound
\* send and no backend call, changes no thread handle, sets last_used of its
\* session to now (a cold session if there was none) and sweeps the others.
C12_PlainEventOnlyTouches ==
    /\ [](\A e \in Events :
            (pc[e] # "idle" /\ ~Filtered(msg[e]) /\ ~msg[e].mentioned)
                => (pc[e] = "done" /\ sent[e] = <<>> /\ calls[e] = {}))
    /\ [][\A e \in Events :
            (pc[e] = "idle" /\ pc'[e] # "idle" /\ ~Filtered(msg'[e]) /\ ~msg'[e].mentioned)
                => LET c == msg'[e].channel IN
                   /\ sent' = sent /\ calls' = calls
                   /\ threads' = threads /\ runs' = runs /\ next_thread' = next_thread
                   /\ c \in DOMAIN thread_ids'
                   /\ thread_ids'[c].last_used = now
                   /\ thread_ids'[c].thread_id =
                         IF c \in DOMAIN thread_ids THEN thread_ids[c].thread_id ELSE None
                   /\ \A k \in DOMAIN thread_ids' \ {c} :
                         k \in DOMAIN thread_ids /\ thread_ids'[k] = thread_ids[k]
                   /\ \A k \in DOMAIN thread_ids \ {c} :
                         k \in DOMAIN thread_ids' <=>
                             now - thread_ids[k].last_used <= IdleThreshold]_vars

\* a plain event has touched an activated session at a later hour
C12_Witness ==
    \E e \in Events :
        /\ pc[e] = "done" /\ ~Filtered(msg[e]) /\ ~msg[e].mentioned
        /\ msg[e].channel \in DOMAIN thread_ids
        /\ thread_ids[msg[e].channel].thread_id # None
        /\ thread_ids[msg[e].channel].last_used = now
        /\ now > 0

\* C13: an event authored by the bot or carrying a broadcast mention ends at
\* once and changes nothing: no send, no backend call, the store untouched,
\* also when it mentions the bot.
C13_FilteredEventIgnored ==
    /\ [](\A e \in Events :
            (pc[e] # "idle" /\ (msg[e].author_is_bot \/ msg[e].broadcast))
                => (pc[e] = "done" /\ sent[e] = <<>> /\ calls[e] = {}))
    /\ [][\A e \in Events :
            (pc[e] = "idle" /\ pc'[e] # "idle"
                /\ (msg'[e].author_is_bot \/ msg'[e].broadcast))
                => /\ thread_ids' = thread_ids
                   /\ sent' = sent /\ calls' = calls
                   /\ threads' = threads /\ runs' = runs
                   /\ next_thread' = next_thread]_vars

\* a broadcast event that mentions the bot was ignored although a session in
\* the store had expired
C13_Witness ==
    \E e \in Events :
        /\ pc[e] = "done" /\ msg[e].broadcast /\ ~msg[e].author_is_bot /\ msg[e].mentioned
        /\ \E k \in DOMAIN thread_ids : now - thread_ids[k].last_used > IdleThreshold
        /\ e > 1

\* t is the chunks cs in order with a run of whitespace put back between
\* consecutive chunks and nowhere else
RECURSIVE Rebuilds(_, _)
Rebuilds(cs, t) ==
    IF cs = <<>> THEN t = <<>>
    ELSE LET c == Head(cs) IN
         /\ IsPrefix(c, t)
         /\ IF Len(cs) = 1 THEN Len(t) = Len(c)
            ELSE \E k \in 0..(Len(t) - Len(c)) :
                    /\ \A i \in (Len(c) + 1)..(Len(c) + k) : t[i] \in Whitespace
                    /\ Rebuilds(Tail(cs), SubSeq(t, Len(c) + k + 1, Len(t)))

\* C14: every chunk handed to the outbound send has between 1 and chunk_size
\* characters.
C14_ChunkSizes ==
    \A e \in Events : \A i \in 1..Len(sent[e]) :
        Len(sent[e][i]) >= 1 /\ Len(sent[e][i]) <= chunk_size

\* C15: every round of the chunk loop strictly shrinks the remaining text.
C15_ChunkingShrinks ==
    [][\A e \in Events :
          sent'[e] # sent[e] => Len(message'[e]) < Len(message[e])]_vars

\* C16: when the loop has ended with the text exhausted, the chunks sent, with
\* whitespace put back at the split points only, are the original text.
C16_ChunksRebuildText ==
    \A e \in Events :
        (pc[e] = "done" /\ sent[e] # <<>> /\ message[e] = <<>>)
            => Rebuilds(sent[e], response[e])

\* the first L + 1 positions of the text that hold whitespace: the places
\* where a cut leaves a first word of at most L characters whole
CutPoints(t, limit) ==
    {i \in 1..(IF Len(t) < limit + 1 THEN Len(t) ELSE limit + 1) : t[i] \in Whitespace}

\* C19: a remaining text longer than chunk_size with whitespace at or before the
\* limit is cut at the last such whitespace and the chunk trimmed, so that a
\* word of up to chunk_size characters is never split; a remaining text of at
\* most chunk_size characters is sent whole (trimmed).
C19_CutAtLastWhitespace ==
    [][\A e \in Events :
          sent'[e] # sent[e] =>
              LET t == message[e]
                  c == sent'[e][Len(sent'[e])]
              IN  IF Len(t) <= chunk_size
                  THEN c = strip(t) /\ message'[e] = <<>>
                  ELSE CutPoints(t, chunk_size) # {} =>
                          c = strip(SubSeq(t, 1, SetMax(CutPoints(t, chunk_size))))]_vars

\* C20: a remaining text longer than chunk_size without whitespace in its first
\* chunk_size characters is cut after exactly chunk_size characters.
C20_FallbackToLimit ==
    [][\A e \in Events :
          (/\ sent'[e] # sent[e]
           /\ Len(message[e]) > chunk_size
           /\ \A i \in 1..chunk_size : message[e][i] \notin Whitespace)
              => /\ sent'[e] = Append(sent[e], SubSeq(message[e], 1, chunk_size))
                 /\ message'[e] = SubSeq(message[e], chunk_size + 1, Len(message[e]))]_vars

\* the text is what the claim lets the selector return for the list: the
\* content of an assistant message with the maximum timestamp, or the sentinel
\* when the list has no assistant message
IsSelection(text, data) ==
    LET A == {i \in 1..Len(data) : data[i].role = "assistant"}
    IN  IF A = {} THEN text = NoResponse
        ELSE \E i \in A : /\ \A j \in A : data[j].created_at <= data[i].created_at
                          /\ text = data[i].content

\* C18 as claimed: the selector never fails: whenever it has run, the
\* response is its selection from the thread's messages.
C18_SelectNeverFails ==
    [][\A e \in Events :
          (pc[e] = "list" /\ pc'[e] # "list")
              => IsSelection(response'[e], threads[thread_id[e]])]_vars

\* C18 amended: whenever the selector has run, either the listing failed and
\* the response is the fallback text, or the response is its selection.
C18_SelectsLatestAssistant ==
    [][\A e \in Events :
          (pc[e] = "list" /\ pc'[e] # "list")
              => \/ response'[e] = Fallback
                 \/ IsSelection(response'[e], threads[thread_id[e]])]_vars

\* the selector has answered "B" for a user message and the assistant messages
\* "A" at time 1 and "B" at time 2
C18_Witness ==
    \E e \in Events :
        /\ pc[e] \in {"send", "done"} /\ "listMessages" \in calls[e]
        /\ threads[thread_id[e]] =
              <<[role |-> "user", created_at |-> 2, content |-> <<"A">>],
                [role |-> "assistant", created_at |-> 1, content |-> <<"A">>],
                [role |-> "assistant", created_at |-> 2, content |-> <<"B">>]>>
        /\ response[e] = <<"B">>

\* the statuses other than completed among those returned to the poller of e
NotCompleted(e) == {i \in 1..Len(polled[e]) : polled[e][i] # "completed"}

\* C17 as claimed: when the selector is about to run, the number of poll calls
\* made equals the number of statuses other than completed that were returned.
C17_PollsEqualPending ==
    \A e \in Events :
        pc[e] = "list" => Len(polled[e]) = Cardinality(NotCompleted(e))

\* C17 amended: when the selector is about to run or has run, the number of
\* poll calls made is one more than the number of statuses other than
\* completed that were returned: the last poll is the one that returned
\* completed.
C17_PollsArePendingPlusOne ==
    \A e \in Events :
        (pc[e] = "list" \/ "listMessages" \in calls[e])
            => /\ Len(polled[e]) = Cardinality(NotCompleted(e)) + 1
               /\ polled[e][Len(polled[e])] = "completed"

\* the statuses in_progress, in_progress, completed were returned by three
\* poll calls and the selector is about to run
C17_Witness ==
    \E e \in Events :
        /\ pc[e] = "list"
        /\ polled[e] = <<"in_progress", "in_progress", "completed">>

====
